---- MODULE Spec2Model ----
(***************************************************************************)
(* Model of compiler/map.go: the lowering of map operations to calls into  *)
(* the hashmap runtime (emitMakeMap, emitMapLookup, emitMapUpdate,         *)
(* emitMapDelete), the key test hashmapIsBinaryKey and hashmapTopHash.     *)
(*                                                                         *)
(* The compiler state is the instruction stream of the builder (code), the *)
(* diagnostics added with addError, and the counter of temporary allocas.  *)
(* Each lowering function is one action that appends everything the        *)
(* function emits.  sites is a log of the calls made to the lowering       *)
(* functions and of what each returned.                                    *)
(***************************************************************************)
EXTENDS Integers, Sequences, FiniteSets, TLC

VARIABLES code, diagnostics, nextBuf, sites,
          hash, tophash,
          root, stack, retval, results

vars == <<code, diagnostics, nextBuf, sites, hash, tophash, root, stack, retval, results>>

lowerVars == <<code, diagnostics, nextBuf, sites>>
hashVars == <<hash, tophash>>
classifyVars == <<root, stack, retval, results>>

(***************************************************************************)
(* Bounds of the model.                                                    *)
(***************************************************************************)
\* number of map operations lowered into one function body
MaxOps == 1
\* cap on the depth of the recursion of hashmapIsBinaryKey
MaxDepth == 8
\* how often the classifier is run on the same type
MaxRuns == 2

(***************************************************************************)
(* go/types: the static types the lowering dispatches on.  A type is an    *)
(* entry of the table Types; composite types refer to their parts by name, *)
(* so that recursive declarations (Node) are ordinary entries.             *)
(***************************************************************************)
NoType == "<none>"

Basic(info) == [kind |-> "Basic", info |-> info, elem |-> NoType, fields |-> <<>>]
Pointer(elem) == [kind |-> "Pointer", info |-> {}, elem |-> elem, fields |-> <<>>]
Struct(fields) == [kind |-> "Struct", info |-> {}, elem |-> NoType, fields |-> fields]
Array(elem) == [kind |-> "Array", info |-> {}, elem |-> elem, fields |-> <<>>]
Named(under) == [kind |-> "Named", info |-> {}, elem |-> under, fields |-> <<>>]
Other(kind) == [kind |-> kind, info |-> {}, elem |-> NoType, fields |-> <<>>]

Types ==
    \* basic types with their types.BasicInfo flags
       ("bool"           :> Basic({"IsBoolean"}))
    @@ ("int8"           :> Basic({"IsInteger"}))
    @@ ("int32"          :> Basic({"IsInteger"}))
    @@ ("uint64"         :> Basic({"IsInteger", "IsUnsigned"}))
    @@ ("uintptr"        :> Basic({"IsInteger", "IsUnsigned"}))
    @@ ("float64"        :> Basic({"IsFloat"}))
    @@ ("complex128"     :> Basic({"IsComplex"}))
    @@ ("string"         :> Basic({"IsString"}))
    @@ ("unsafe.Pointer" :> Basic({}))
    \* pointers
    @@ ("*int32"         :> Pointer("int32"))
    @@ ("*string"        :> Pointer("string"))
    @@ ("*Node"          :> Pointer("Node"))
    \* types without a case in hashmapIsBinaryKey
    @@ ("[]int32"        :> Other("Slice"))
    @@ ("map[string]int32" :> Other("Map"))
    @@ ("func()"         :> Other("Signature"))
    @@ ("interface{}"    :> Other("Interface"))
    @@ ("chan int32"     :> Other("Chan"))
    \* structs
    @@ ("struct{}"                   :> Struct(<<>>))
    @@ ("struct{a int32; b bool}"    :> Struct(<<"int32", "bool">>))
    @@ ("struct{a int32; b string}"  :> Struct(<<"int32", "string">>))
    @@ ("struct{a string; b int32}"  :> Struct(<<"string", "int32">>))
    @@ ("struct{a float64}"          :> Struct(<<"float64">>))
    @@ ("struct{a interface{}; b int32}" :> Struct(<<"interface{}", "int32">>))
    @@ ("struct{p *string}"          :> Struct(<<"*string">>))
    @@ ("struct{a MyInt; b Point}"   :> Struct(<<"MyInt", "Point">>))
    @@ ("struct{a MyInt; b Bad}"     :> Struct(<<"MyInt", "Bad">>))
    @@ ("struct{s MyString}"         :> Struct(<<"MyString">>))
    @@ ("struct{a int8; b struct{}}" :> Struct(<<"int8", "struct{}">>))
    @@ ("struct{a [2]int32; b Arr}"  :> Struct(<<"[2]int32", "Arr">>))
    @@ ("struct{a [2]string}"        :> Struct(<<"[2]string">>))
    @@ ("struct{val int32; next *Node}" :> Struct(<<"int32", "*Node">>))
    \* arrays
    @@ ("[2]int32"       :> Array("int32"))
    @@ ("[2]bool"        :> Array("bool"))
    @@ ("[2]string"      :> Array("string"))
    @@ ("[2]float64"     :> Array("float64"))
    @@ ("[2]MyString"    :> Array("MyString"))
    @@ ("[2]Point"       :> Array("Point"))
    @@ ("[2]Bad"         :> Array("Bad"))
    @@ ("[2][2]int32"    :> Array("[2]int32"))
    @@ ("[2][2]string"   :> Array("[2]string"))
    @@ ("[2]*Node"       :> Array("*Node"))
    @@ ("[2]Node"        :> Array("Node"))
    @@ ("[2][]int32"     :> Array("[]int32"))
    \* named types
    @@ ("MyInt"          :> Named("int32"))
    @@ ("MyBool"         :> Named("bool"))
    @@ ("MyString"       :> Named("string"))
    @@ ("MyFloat"        :> Named("float64"))
    @@ ("MyPtr"          :> Named("*int32"))
    @@ ("MySlice"        :> Named("[]int32"))
    @@ ("Point"          :> Named("struct{a int32; b bool}"))
    @@ ("Bad"            :> Named("struct{a int32; b string}"))
    @@ ("Node"           :> Named("struct{val int32; next *Node}"))
    @@ ("Arr"            :> Named("[2]int32"))
    @@ ("StrArr"         :> Named("[2]string"))

TypeIds == DOMAIN Types

\* the value types of the maps that are lowered
ValueTypes == {"int32", "string"}

\* types.Type.Underlying: the underlying type of a named type, the type itself otherwise
Underlying(t) == IF Types[t].kind = "Named" THEN Types[t].elem ELSE t

(***************************************************************************)
(* The key tests.                                                          *)
(***************************************************************************)
\* t, ok := keyType.(*types.Basic); ok && t.Info()&types.IsString != 0
isStringKey(t) == Types[t].kind = "Basic" /\ "IsString" \in Types[t].info

\* a test that leaves out types.IsBoolean
basicIsBinary_intOnly(info) == "IsInteger" \in info

\* the case of *types.Basic: keyType.Info()&(types.IsBoolean|types.IsInteger) != 0
basicIsBinary(info) == info \cap {"IsBoolean", "IsInteger"} # {}

RECURSIVE hashmapIsBinaryKey(_)
RECURSIVE structIsBinaryKey(_, _)

\* the loop over the fields of a struct, from field i on
structIsBinaryKey(fields, i) ==
    IF i > Len(fields) THEN TRUE
    ELSE IF ~hashmapIsBinaryKey(Underlying(fields[i])) THEN FALSE
    ELSE structIsBinaryKey(fields, i + 1)

\* an array case that does not look at the element type
arrayIsBinaryKey_any(elem) == TRUE

\* the case of *types.Array
arrayIsBinaryKey(elem) == hashmapIsBinaryKey(elem)

hashmapIsBinaryKey(keyType) ==
    LET ty == Types[keyType] IN
    CASE ty.kind = "Basic" -> basicIsBinary(ty.info)
      [] ty.kind = "Pointer" -> TRUE
      [] ty.kind = "Struct" -> structIsBinaryKey(ty.fields, 1)
      [] ty.kind = "Array" -> arrayIsBinaryKey(ty.elem)
      [] ty.kind = "Named" -> hashmapIsBinaryKey(Underlying(keyType))
      [] OTHER -> FALSE

(***************************************************************************)
(* The builder: instructions and temporary allocas.                        *)
(***************************************************************************)
NoBuf == 0
NoError == [msg |-> "", got |-> NoType]
InvalidValue == [shape |-> "invalid", type |-> NoType]

Instr(site, opc, buf, callee, bufs, args) ==
    [site |-> site, opc |-> opc, buf |-> buf, callee |-> callee, bufs |-> bufs, args |-> args]

\* c.createTemporaryAlloca(t, name): an alloca in the entry block whose lifetime
\* starts here; the name ("hashmap.value", "hashmap.key") is kept as the callee
createTemporaryAlloca(site, buf, name) == <<Instr(site, "alloca", buf, name, {}, <<>>)>>

\* c.emitLifetimeEnd: the end of the lifetime of a temporary alloca
emitLifetimeEnd(site, buf) == <<Instr(site, "lifetime.end", buf, "", {}, <<>>)>>

\* c.builder.CreateStore(value, alloca)
CreateStore(site, buf) == <<Instr(site, "store", buf, "", {}, <<>>)>>

\* c.builder.CreateLoad(alloca, "")
CreateLoad(site, buf) == <<Instr(site, "load", buf, "", {}, <<>>)>>

\* c.createRuntimeCall(callee, params, ""): bufs are the allocas whose address is passed
createRuntimeCall(site, callee, bufs, args) == <<Instr(site, "call", NoBuf, callee, bufs, args)>>

\* c.makeError / c.addError with the message of the unsupported key type
unsupportedKey(t) ==
    [msg |-> "only strings, bools, ints, pointers or structs of bools/ints are supported as map keys, but got: ",
     got |-> t]

\* llvm.ConstInt(intType, n, false): the constant holds the low bits of n
ConstInt(bits, n) == n % (2 ^ bits)

(***************************************************************************)
(* emitMapLookup                                                           *)
(***************************************************************************)
\* a lookup that ends the lifetime of the value alloca before it loads from it
lookupLoad_releaseFirst(site, vb) == emitLifetimeEnd(site, vb) \o CreateLoad(site, vb)

\* load the result from the value alloca and end its lifetime
lookupLoad(site, vb) == CreateLoad(site, vb) \o emitLifetimeEnd(site, vb)

\* the value returned: the tuple (value, commaOk) or the loaded value
lookupValue(valueType, commaOk) ==
    IF commaOk THEN [shape |-> "tuple", type |-> valueType]
    ELSE [shape |-> "value", type |-> valueType]

\* the instructions that build the returned value
lookupTuple(site, commaOk) ==
    IF commaOk
    THEN <<Instr(site, "insertvalue", NoBuf, "", {}, <<0>>),
           Instr(site, "insertvalue", NoBuf, "", {}, <<1>>)>>
    ELSE <<>>

\* a failure that returns a placeholder of the result type with the error
lookupFailure_placeholder(keyType, valueType, commaOk) ==
    [value |-> lookupValue(valueType, commaOk), err |-> unsupportedKey(keyType)]

\* the return for a key type that is neither a string nor a binary key
lookupFailure(keyType, valueType, commaOk) ==
    [value |-> InvalidValue, err |-> unsupportedKey(keyType)]

\* vb, kb: the allocas the call stages, in the order it stages them
emitMapLookup(keyType, valueType, commaOk, site, vb, kb) ==
    LET stage == createTemporaryAlloca(site, vb, "hashmap.value") IN
    IF isStringKey(keyType)
    THEN [code |-> stage \o createRuntimeCall(site, "hashmapStringGet", {vb}, <<>>)
                     \o lookupLoad(site, vb) \o lookupTuple(site, commaOk),
          staged |-> 1, value |-> lookupValue(valueType, commaOk),
          err |-> NoError, diag |-> <<>>]
    ELSE IF hashmapIsBinaryKey(keyType)
    THEN [code |-> stage \o createTemporaryAlloca(site, kb, "hashmap.key") \o CreateStore(site, kb)
                     \o createRuntimeCall(site, "hashmapBinaryGet", {kb, vb}, <<>>)
                     \o emitLifetimeEnd(site, kb)
                     \o lookupLoad(site, vb) \o lookupTuple(site, commaOk),
          staged |-> 2, value |-> lookupValue(valueType, commaOk),
          err |-> NoError, diag |-> <<>>]
    ELSE LET failure == lookupFailure(keyType, valueType, commaOk) IN
         [code |-> stage, staged |-> 1, value |-> failure.value,
          err |-> failure.err, diag |-> <<>>]

(***************************************************************************)
(* emitMapUpdate                                                           *)
(***************************************************************************)
emitMapUpdate(keyType0, site, vb, kb) ==
    LET stage == createTemporaryAlloca(site, vb, "hashmap.value") \o CreateStore(site, vb)
        keyType == Underlying(keyType0)
    IN
    IF isStringKey(keyType)
    THEN [code |-> stage \o createRuntimeCall(site, "hashmapStringSet", {vb}, <<>>)
                     \o emitLifetimeEnd(site, vb),
          staged |-> 1, value |-> InvalidValue, err |-> NoError, diag |-> <<>>]
    ELSE IF hashmapIsBinaryKey(keyType)
    THEN [code |-> stage \o createTemporaryAlloca(site, kb, "hashmap.key") \o CreateStore(site, kb)
                     \o createRuntimeCall(site, "hashmapBinarySet", {kb, vb}, <<>>)
                     \o emitLifetimeEnd(site, kb)
                     \o emitLifetimeEnd(site, vb),
          staged |-> 2, value |-> InvalidValue, err |-> NoError, diag |-> <<>>]
    ELSE [code |-> stage \o emitLifetimeEnd(site, vb),
          staged |-> 1, value |-> InvalidValue, err |-> NoError,
          diag |-> <<unsupportedKey(keyType)>>]

(***************************************************************************)
(* emitMapDelete                                                           *)
(***************************************************************************)
emitMapDelete(keyType0, site, kb) ==
    LET keyType == Underlying(keyType0) IN
    IF isStringKey(keyType)
    THEN [code |-> createRuntimeCall(site, "hashmapStringDelete", {}, <<>>),
          staged |-> 0, value |-> InvalidValue, err |-> NoError, diag |-> <<>>]
    ELSE IF hashmapIsBinaryKey(keyType)
    THEN [code |-> createTemporaryAlloca(site, kb, "hashmap.key") \o CreateStore(site, kb)
                     \o createRuntimeCall(site, "hashmapBinaryDelete", {kb}, <<>>)
                     \o emitLifetimeEnd(site, kb),
          staged |-> 1, value |-> InvalidValue, err |-> NoError, diag |-> <<>>]
    ELSE [code |-> <<>>, staged |-> 0, value |-> InvalidValue,
          err |-> unsupportedKey(keyType), diag |-> <<>>]

(***************************************************************************)
(* emitMakeMap                                                             *)
(***************************************************************************)
\* what c.targetData.TypeAllocSize returns for the key and value types
AllocSizes == {1, 4, 8, 16, 255, 256, 260}

\* expr.Reserve: absent, convertible to uintptr, or rejected by parseConvert
Reserves == {"nil", "ok", "err"}

convertError == [msg |-> "parseConvert", got |-> NoType]

\* the size hint of a make without a reserve expression
defaultSizeHint == 8

emitMakeMap(keySize, valueSize, reserve, site) ==
    LET llvmKeySize == ConstInt(8, keySize)
        llvmValueSize == ConstInt(8, valueSize)
        sizeHint == IF reserve = "nil" THEN defaultSizeHint ELSE -1
    IN
    IF reserve = "err"
    THEN [code |-> <<>>, staged |-> 0, value |-> InvalidValue,
          err |-> convertError, diag |-> <<>>]
    ELSE [code |-> createRuntimeCall(site, "hashmapMake", {},
                                     <<llvmKeySize, llvmValueSize, sizeHint>>),
          staged |-> 0, value |-> [shape |-> "value", type |-> "hashmap"],
          err |-> NoError, diag |-> <<>>]

(***************************************************************************)
(* The lowering actions: one call of a lowering function each.             *)
(***************************************************************************)
Site(op, keyType, valueType, commaOk, sizes, r) ==
    [op |-> op, keyType |-> keyType, valueType |-> valueType, commaOk |-> commaOk,
     sizes |-> sizes, value |-> r.value, err |-> r.err, diag |-> r.diag]

Emit(op, keyType, valueType, commaOk, sizes, r) ==
    /\ code' = code \o r.code
    /\ diagnostics' = diagnostics \o r.diag
    /\ nextBuf' = nextBuf + r.staged
    /\ sites' = Append(sites, Site(op, keyType, valueType, commaOk, sizes, r))
    /\ UNCHANGED <<hashVars, classifyVars>>

EmitMapLookup ==
    /\ Len(sites) < MaxOps
    /\ \E keyType \in TypeIds, valueType \in ValueTypes, commaOk \in BOOLEAN :
         Emit("lookup", keyType, valueType, commaOk, <<>>,
              emitMapLookup(keyType, valueType, commaOk, Len(sites) + 1, nextBuf, nextBuf + 1))

EmitMapUpdate ==
    /\ Len(sites) < MaxOps
    /\ \E keyType \in TypeIds, valueType \in ValueTypes :
         Emit("update", keyType, valueType, FALSE, <<>>,
              emitMapUpdate(keyType, Len(sites) + 1, nextBuf, nextBuf + 1))

EmitMapDelete ==
    /\ Len(sites) < MaxOps
    /\ \E keyType \in TypeIds :
         Emit("delete", keyType, NoType, FALSE, <<>>,
              emitMapDelete(keyType, Len(sites) + 1, nextBuf))

EmitMakeMap ==
    /\ Len(sites) < MaxOps
    /\ \E keySize \in AllocSizes, valueSize \in AllocSizes, reserve \in Reserves :
         Emit("make", NoType, NoType, FALSE, <<keySize, valueSize>>,
              emitMakeMap(keySize, valueSize, reserve, Len(sites) + 1))

IdleLower == code = <<>> /\ diagnostics = <<>> /\ nextBuf = 1 /\ sites = <<>>
IdleHash == hash = [hi |-> 0, lo |-> 0] /\ tophash = -1
IdleClassify == root = NoType /\ stack = <<>> /\ retval = "none" /\ results = <<>>

Init == IdleLower /\ IdleHash /\ IdleClassify

Next == EmitMapLookup \/ EmitMapUpdate \/ EmitMapDelete \/ EmitMakeMap

Spec == Init /\ [][Next]_vars

(***************************************************************************)
(* hashmapTopHash                                                          *)
(***************************************************************************)
\* A uint32 is held as its two 16-bit halves: the value is hi * 2^16 + lo.
Uint32(hi, lo) == [hi |-> hi, lo |-> lo]

\* hash >> n for 16 <= n < 32
ShiftRight(h, n) == h.hi \div (2 ^ (n - 16))

\* the bits below the top byte the hashes are drawn with; every top byte is drawn
HashMids == {0, 1, 255}
HashLows == {0, 65535}

HashInputs == {Uint32(top * 256 + mid, lo) : top \in 0 .. 255, mid \in HashMids, lo \in HashLows}

\* a top hash that keeps the value 0
hashmapTopHash_noBump(h) == ShiftRight(h, 24) % 256

hashmapTopHash(h) ==
    LET tophash0 == ShiftRight(h, 24) % 256 IN
    IF tophash0 < 1 THEN (tophash0 + 1) % 256 ELSE tophash0

TopHash ==
    /\ tophash = -1
    /\ tophash' = hashmapTopHash(hash)
    /\ UNCHANGED <<hash, lowerVars, classifyVars>>

InitHash == IdleLower /\ IdleClassify /\ hash \in HashInputs /\ tophash = -1

NextHash == TopHash

SpecHash == InitHash /\ [][NextHash]_vars

(***************************************************************************)
(* hashmapIsBinaryKey, one call and one return at a time: stack holds the  *)
(* active calls (the type and, for a struct, the field the loop is at),    *)
(* retval the value the last call returned.                                *)
(***************************************************************************)
Frame(t) == [t |-> t, i |-> 1]

\* a recursion that also follows the element type of a pointer
recursesInto_pointer(t, i) ==
    LET ty == Types[t] IN
    CASE ty.kind = "Struct" ->
           IF i <= Len(ty.fields) THEN Underlying(ty.fields[i]) ELSE NoType
      [] ty.kind \in {"Array", "Pointer"} -> ty.elem
      [] ty.kind = "Named" -> Underlying(t)
      [] OTHER -> NoType

\* the type the call recurses into next, NoType when it returns without recursing
recursesInto(t, i) ==
    LET ty == Types[t] IN
    CASE ty.kind = "Struct" ->
           IF i <= Len(ty.fields) THEN Underlying(ty.fields[i]) ELSE NoType
      [] ty.kind = "Array" -> ty.elem
      [] ty.kind = "Named" -> Underlying(t)
      [] OTHER -> NoType

\* the value a call returns when it does not recurse
returnsDirectly(t) ==
    LET ty == Types[t] IN
    CASE ty.kind = "Basic" -> IF basicIsBinary(ty.info) THEN "true" ELSE "false"
      [] ty.kind = "Pointer" -> "true"
      [] ty.kind = "Struct" -> "true"
      [] OTHER -> "false"

Top == stack[Len(stack)]
Pop == SubSeq(stack, 1, Len(stack) - 1)

ClassifyStart ==
    /\ root # NoType /\ stack = <<>> /\ retval = "none"
    /\ Len(results) < MaxRuns
    /\ stack' = <<Frame(root)>>
    /\ UNCHANGED <<root, retval, results, lowerVars, hashVars>>

ClassifyCall ==
    /\ stack # <<>> /\ retval = "none"
    /\ recursesInto(Top.t, Top.i) # NoType
    /\ Len(stack) < MaxDepth
    /\ stack' = Append(stack, Frame(recursesInto(Top.t, Top.i)))
    /\ UNCHANGED <<root, retval, results, lowerVars, hashVars>>

ClassifyReturn ==
    /\ stack # <<>> /\ retval = "none"
    /\ recursesInto(Top.t, Top.i) = NoType
    /\ retval' = returnsDirectly(Top.t)
    /\ stack' = Pop
    /\ UNCHANGED <<root, results, lowerVars, hashVars>>

\* the callee returned: a struct returns false or goes on to its next field,
\* an array or a named type returns what the callee returned
ClassifyResume ==
    /\ stack # <<>> /\ retval # "none"
    /\ IF Types[Top.t].kind = "Struct" /\ retval = "true"
       THEN /\ stack' = [stack EXCEPT ![Len(stack)].i = @ + 1]
            /\ retval' = "none"
       ELSE /\ stack' = Pop
            /\ UNCHANGED retval
    /\ UNCHANGED <<root, results, lowerVars, hashVars>>

ClassifyDone ==
    /\ stack = <<>> /\ retval # "none"
    /\ results' = Append(results, retval)
    /\ retval' = "none"
    /\ UNCHANGED <<root, stack, lowerVars, hashVars>>

InitClassify ==
    /\ IdleLower /\ IdleHash
    /\ root \in TypeIds /\ stack = <<>> /\ retval = "none" /\ results = <<>>

NextClassify ==
    ClassifyStart \/ ClassifyCall \/ ClassifyReturn \/ ClassifyResume \/ ClassifyDone

SpecClassify == InitClassify /\ [][NextClassify]_vars

\* the compiler runs the call to its end
FairClassify == SpecClassify /\ WF_vars(NextClassify)

(***************************************************************************)
(* Reading the state: what a lowered operation emitted and reported.       *)
(***************************************************************************)
MapOps == {"lookup", "update", "delete"}

\* the positions in code of the instructions of operation n
CodeOf(n) == {k \in DOMAIN code : code[k].site = n}

\* the positions of the instructions of operation n with this opcode on this alloca
At(n, opc, b) == {k \in CodeOf(n) : code[k].opc = opc /\ code[k].buf = b}

\* the allocas operation n staged
Staged(n) == {code[k].buf : k \in {j \in CodeOf(n) : code[j].opc = "alloca"}}
StagedAs(n, name) ==
    {code[k].buf : k \in {j \in CodeOf(n) : code[j].opc = "alloca" /\ code[j].callee = name}}

\* the runtime calls operation n emitted
CallsOf(n) == {k \in CodeOf(n) : code[k].opc = "call"}

\* operation n reported an error, returned or added to the diagnostics
Reported(n) == sites[n].err # NoError \/ sites[n].diag # <<>>

StringEntry == [lookup |-> "hashmapStringGet", update |-> "hashmapStringSet",
                delete |-> "hashmapStringDelete"]
BinaryEntry == [lookup |-> "hashmapBinaryGet", update |-> "hashmapBinarySet",
                delete |-> "hashmapBinaryDelete"]

\* the class of a key type: that of its underlying type under the two key tests
KeyClassOf(t) ==
    IF isStringKey(Underlying(t)) THEN "StringKey"
    ELSE IF hashmapIsBinaryKey(Underlying(t)) THEN "BinaryKey"
    ELSE "Unsupported"

\* the class operation n dispatched on, read from what it emitted
Dispatched(n) ==
    IF CallsOf(n) = {}
    THEN IF Reported(n) THEN "Unsupported" ELSE "nothing"
    ELSE IF \A k \in CallsOf(n) : code[k].callee = StringEntry[sites[n].op] THEN "StringKey"
    ELSE IF \A k \in CallsOf(n) : code[k].callee = BinaryEntry[sites[n].op] THEN "BinaryKey"
    ELSE "mixed"

Lowered == {n \in DOMAIN sites : sites[n].op \in MapOps}

(***************************************************************************)
(* C1                                                                      *)
(***************************************************************************)
\* C1: every alloca a lookup, update or delete stages has its lifetime ended
\* exactly once when the lowering returns, for every key class, also when an
\* unsupported key type is reported after an alloca was staged.
C1_StagedReleasedOnce ==
    \A n \in Lowered : \A b \in Staged(n) :
        Cardinality(At(n, "lifetime.end", b)) = 1

(***************************************************************************)
(* C2                                                                      *)
(***************************************************************************)
\* C2: an Unsupported key type is reported and no call is emitted; a StringKey
\* type gets exactly one call of the string entry point of the operation, a
\* BinaryKey type exactly one call of the binary entry point; no operation
\* both reports an error and emits a call.
C2_DispatchByClass ==
    \A n \in Lowered :
        LET class == KeyClassOf(sites[n].keyType)
            op == sites[n].op
        IN
        /\ class = "Unsupported" => Reported(n) /\ CallsOf(n) = {}
        /\ class = "StringKey" =>
             /\ Cardinality(CallsOf(n)) = 1
             /\ \A k \in CallsOf(n) : code[k].callee = StringEntry[op]
        /\ class = "BinaryKey" =>
             /\ Cardinality(CallsOf(n)) = 1
             /\ \A k \in CallsOf(n) : code[k].callee = BinaryEntry[op]
        /\ ~(Reported(n) /\ CallsOf(n) # {})

(***************************************************************************)
(* C3                                                                      *)
(***************************************************************************)
\* the well-typed result of lookup n: the value, or the pair (value, flag)
WellTyped(n) ==
    [shape |-> IF sites[n].commaOk THEN "tuple" ELSE "value", type |-> sites[n].valueType]

Lookups == {n \in DOMAIN sites : sites[n].op = "lookup"}

\* C3 (as stated): a lookup of an Unsupported key type reports the error and
\* still returns a well-typed placeholder, of the value type or the pair.
C3_PlaceholderOnError ==
    \A n \in Lookups :
        KeyClassOf(sites[n].keyType) = "Unsupported" =>
            Reported(n) /\ sites[n].value = WellTyped(n)

\* C3 (amended): a lookup of an Unsupported key type returns the error together
\* with the empty value; a lookup returns a well-typed result, the value or the
\* pair, only when it returns no error.
C3_EmptyValueOnError ==
    \A n \in Lookups :
        /\ KeyClassOf(sites[n].keyType) = "Unsupported" =>
             sites[n].err # NoError /\ sites[n].value = InvalidValue
        /\ sites[n].value # InvalidValue =>
             sites[n].err = NoError /\ sites[n].value = WellTyped(n)

C3_Witness ==
    \E n \in Lookups :
        /\ KeyClassOf(sites[n].keyType) = "Unsupported"
        /\ sites[n].commaOk
        /\ sites[n].err # NoError

(***************************************************************************)
(* C4                                                                      *)
(***************************************************************************)
\* C4: lookup, update and delete all dispatch on the class of the underlying
\* type of the key type, named types included.
C4_UnderlyingClassEverywhere ==
    \A n \in Lowered : Dispatched(n) = KeyClassOf(sites[n].keyType)

(***************************************************************************)
(* C5                                                                      *)
(***************************************************************************)
\* the operations whose key type is an array, or a named array
ArrayKeyed == {n \in Lowered : Types[Underlying(sites[n].keyType)].kind = "Array"}
ElemOf(n) == Types[Underlying(sites[n].keyType)].elem

\* C5 (as stated): an array key type gets the class of its element type, for
\* every element class, StringKey included.
C5_ArrayInheritsElemClass ==
    \A n \in ArrayKeyed : Dispatched(n) = KeyClassOf(ElemOf(n))

\* C5 (amended): an array key type is BinaryKey when its element type is
\* BinaryKey and Unsupported otherwise; an array of StringKey elements is
\* Unsupported.
C5_ArrayBinaryOrUnsupported ==
    \A n \in ArrayKeyed :
        Dispatched(n) = IF KeyClassOf(ElemOf(n)) = "BinaryKey" THEN "BinaryKey"
                        ELSE "Unsupported"

C5_Witness ==
    \E n \in ArrayKeyed :
        /\ KeyClassOf(ElemOf(n)) = "StringKey"
        /\ Dispatched(n) = "Unsupported"
        /\ sites[n].op = "update"

(***************************************************************************)
(* C6                                                                      *)
(***************************************************************************)
RECURSIVE Covered(_)
\* the key types C6 speaks of: string, bool, integers, floats, pointers,
\* interfaces, slices, maps, functions, and the structs and named types over them
Covered(t) ==
    LET ty == Types[t] IN
    CASE ty.kind = "Basic" ->
           ty.info \cap {"IsString", "IsBoolean", "IsInteger", "IsFloat"} # {}
      [] ty.kind = "Pointer" -> TRUE
      [] ty.kind = "Struct" -> \A i \in DOMAIN ty.fields : Covered(ty.fields[i])
      [] ty.kind = "Named" -> Covered(ty.elem)
      [] ty.kind \in {"Interface", "Slice", "Map", "Signature"} -> TRUE
      [] OTHER -> FALSE

RECURSIVE ClassRule(_)
\* the class C6 gives a covered key type
ClassRule(t) ==
    LET ty == Types[t] IN
    CASE ty.kind = "Basic" ->
           IF "IsString" \in ty.info THEN "StringKey"
           ELSE IF "IsBoolean" \in ty.info \/ "IsInteger" \in ty.info THEN "BinaryKey"
           ELSE "Unsupported"
      [] ty.kind = "Pointer" -> "BinaryKey"
      [] ty.kind = "Struct" ->
           IF \A i \in DOMAIN ty.fields : ClassRule(ty.fields[i]) = "BinaryKey"
           THEN "BinaryKey" ELSE "Unsupported"
      [] ty.kind = "Named" -> ClassRule(ty.elem)
      [] OTHER -> "Unsupported"

\* the operations that classify the underlying type of the key type
Classified ==
    {n \in Lowered : sites[n].op \in {"update", "delete"}
                       \/ Underlying(sites[n].keyType) = sites[n].keyType}

\* C6: string is StringKey; bool, integers and pointers are BinaryKey; a struct
\* is BinaryKey iff every field is, through named types and nested structs, the
\* empty struct included; a struct with a string or Unsupported field, floats,
\* interfaces, slices, maps and functions are Unsupported.
C6_ClassOfBasicShapes ==
    \A n \in Classified :
        Covered(sites[n].keyType) => Dispatched(n) = ClassRule(sites[n].keyType)

C6_Witness ==
    \E n \in Classified :
        /\ sites[n].keyType = "struct{a MyInt; b Point}"
        /\ Dispatched(n) = "BinaryKey"

(***************************************************************************)
(* C7                                                                      *)
(***************************************************************************)
AsBool(r) == r = "true"

\* C7: every call of hashmapIsBinaryKey returns, also on a named type that
\* refers to itself through a pointer, and returns the same on every run.
C7_ClassifierTerminates ==
    /\ <>(Len(results) = MaxRuns)
    /\ [](\A i \in DOMAIN results : results[i] = results[1])
    /\ [](\A i \in DOMAIN results : AsBool(results[i]) = hashmapIsBinaryKey(root))

C7_Witness ==
    /\ root = "Node"
    /\ Len(results) = MaxRuns
    /\ results[1] = "true"

(***************************************************************************)
(* C8                                                                      *)
(***************************************************************************)
\* C8: hashmapTopHash(h) is never 0, is 1 when h >> 24 is 0 and h >> 24
\* otherwise, and fits in 8 bits.
C8_TopHashNeverZero ==
    tophash # -1 =>
        /\ tophash # 0
        /\ tophash \in 0 .. 255
        /\ tophash = IF hash.hi \div 256 = 0 THEN 1 ELSE hash.hi \div 256

C8_Witness == tophash = 1 /\ hash = Uint32(255, 65535)

(***************************************************************************)
(* C9                                                                      *)
(***************************************************************************)
Makes == {n \in DOMAIN sites : sites[n].op = "make"}

\* C9: the key size and value size passed to hashmapMake are the allocation
\* sizes of the key and value types, also for sizes of 256 bytes and more.
C9_ExactSizes ==
    \A n \in Makes : \A k \in CallsOf(n) :
        /\ code[k].args[1] = sites[n].sizes[1]
        /\ code[k].args[2] = sites[n].sizes[2]

(***************************************************************************)
(* C10                                                                     *)
(***************************************************************************)
KeyBufs(n) == StagedAs(n, "hashmap.key")
ValueBufs(n) == StagedAs(n, "hashmap.value")
Ends(n) == {k \in CodeOf(n) : code[k].opc = "lifetime.end"}

\* C10: in one operation an alloca is staged and stored before the call that
\* takes its address and its lifetime ends after that call; lookup loads the
\* result after the call and before the value alloca is released; the key
\* alloca is released right after the call and before the value alloca; the
\* value alloca is the last one released.
C10_StepOrder ==
    \A n \in Lowered :
        /\ \A c \in CallsOf(n) : \A b \in code[c].bufs :
             /\ At(n, "alloca", b) # {}
             /\ \A k \in At(n, "alloca", b) \cup At(n, "store", b) : k < c
             /\ \A k \in At(n, "load", b) \cup At(n, "lifetime.end", b) : k > c
        /\ \A b \in Staged(n) :
             \A l \in At(n, "load", b) : \A e \in At(n, "lifetime.end", b) : l < e
        /\ sites[n].op = "lookup" /\ CallsOf(n) # {} =>
             \A b \in ValueBufs(n) : \A c \in CallsOf(n) :
                 \E l \in At(n, "load", b) : \E e \in At(n, "lifetime.end", b) :
                     c < l /\ l < e
        /\ sites[n].op \in {"update", "delete"} =>
             \A b \in Staged(n) : At(n, "store", b) # {}
        /\ \A b \in KeyBufs(n) :
             /\ \A c \in CallsOf(n) : At(n, "lifetime.end", b) = {c + 1}
             /\ \A v \in ValueBufs(n) :
                  \A e \in At(n, "lifetime.end", b) : \A f \in At(n, "lifetime.end", v) : e < f
        /\ \A v \in ValueBufs(n) : \A f \in At(n, "lifetime.end", v) :
             \A e \in Ends(n) : e <= f

C10_Witness ==
    \E n \in Lookups :
        /\ Dispatched(n) = "BinaryKey"
        /\ KeyBufs(n) # {} /\ ValueBufs(n) # {}
        /\ \A b \in Staged(n) : At(n, "lifetime.end", b) # {}

====
